---- MODULE Spec2Model ----
(***************************************************************************)
(* Model of the sequential section reconstruction of                       *)
(* src/parsing/pdf_to_text_grobid_LangChain.py: process_sequential_sections*)
(* and the helpers it calls.  Strings are sequences of one-character       *)
(* strings, so that strip(), slicing, int(), the f-string identifier and   *)
(* the regular expressions are computed and not assumed.                   *)
(***************************************************************************)
EXTENDS Integers, Sequences, FiniteSets, TLC

VARIABLES docs, pc, sorted_docs, i, sequential_sections, current_paragraph,
          paragraph_buffer, seen_sections, section_src, buffer_src, trace,
          calls, pending, formatted_content, current_title, section_index,
          report_pos, output_file, helper_call

\* the state of the callers of the pass: the calls made so far and still to
\* make, the report loop of extract_pdf_with_grobid_sequential, and the
\* argument and result of a helper called on its own
caller_vars == <<calls, pending, formatted_content, current_title, section_index,
                 report_pos, output_file, helper_call>>

vars == <<docs, pc, sorted_docs, i, sequential_sections, current_paragraph,
          paragraph_buffer, seen_sections, section_src, buffer_src, trace,
          caller_vars>>

(***************************************************************************)
(* Characters and Python string primitives                                 *)
(***************************************************************************)
Whitespace == {" ", "\n", "\t", "\r"}
Digits == {"0", "1", "2", "3", "4", "5", "6", "7", "8", "9"}
DigitSeq == <<"0", "1", "2", "3", "4", "5", "6", "7", "8", "9">>
UpperSeq == <<"A", "B", "C", "D", "E", "F", "G", "H", "I", "J", "K", "L", "M",
              "N", "O", "P", "Q", "R", "S", "T", "U", "V", "W", "X", "Y", "Z">>
LowerSeq == <<"a", "b", "c", "d", "e", "f", "g", "h", "i", "j", "k", "l", "m",
              "n", "o", "p", "q", "r", "s", "t", "u", "v", "w", "x", "y", "z">>
Upper == {UpperSeq[k] : k \in 1..26}
Letters == Upper \cup {LowerSeq[k] : k \in 1..26}

\* metadata values that are not strings: a missing key and Python's None
Absent == <<"<absent>">>
Null == <<"<None>">>

SetMin(S) == CHOOSE x \in S : \A y \in S : x <= y
SetMax(S) == CHOOSE x \in S : \A y \in S : x >= y

\* str.strip()
Strip(s) ==
    LET keep == {k \in 1..Len(s) : s[k] \notin Whitespace}
    IN  IF keep = {} THEN <<>> ELSE SubSeq(s, SetMin(keep), SetMax(keep))

\* str.lower()
LowerChar(c) ==
    IF c \in Upper THEN LowerSeq[CHOOSE k \in 1..26 : UpperSeq[k] = c] ELSE c
Lower(s) == [k \in 1..Len(s) |-> LowerChar(s[k])]

\* needle in haystack
Contains(haystack, needle) ==
    \E k \in 0..(Len(haystack) - Len(needle)) :
        SubSeq(haystack, k + 1, k + Len(needle)) = needle

\* s[:n]
Take(s, n) == SubSeq(s, 1, IF Len(s) < n THEN Len(s) ELSE n)

\* sep.join(parts)
RECURSIVE Join(_, _)
Join(parts, sep) ==
    IF Len(parts) = 0 THEN <<>>
    ELSE IF Len(parts) = 1 THEN parts[1]
    ELSE parts[1] \o sep \o Join(Tail(parts), sep)

\* s.split('\n')
RECURSIVE SplitLines(_)
SplitLines(s) ==
    LET nl == {k \in 1..Len(s) : s[k] = "\n"}
    IN  IF nl = {} THEN <<s>>
        ELSE <<SubSeq(s, 1, SetMin(nl) - 1)>>
             \o SplitLines(SubSeq(s, SetMin(nl) + 1, Len(s)))

\* str(n) for n >= 0, as the f-string renders an int
RECURSIVE IntToStr(_)
IntToStr(n) ==
    IF n < 10 THEN <<DigitSeq[n + 1]>>
    ELSE IntToStr(n \div 10) \o <<DigitSeq[(n % 10) + 1]>>

DigitVal(c) == (CHOOSE k \in 1..10 : DigitSeq[k] = c) - 1

RECURSIVE DigitsToInt(_, _)
DigitsToInt(s, acc) ==
    IF Len(s) = 0 THEN acc
    ELSE DigitsToInt(Tail(s), IF s[1] = "_" THEN acc ELSE 10 * acc + DigitVal(s[1]))

\* int(x) of Python 3: surrounding whitespace is ignored, one sign is
\* allowed, single underscores may separate digits; anything else, and
\* None, raises (ok = FALSE).
ParseInt(raw) ==
    LET s == Strip(raw)
        signed == Len(s) > 0 /\ s[1] \in {"+", "-"}
        body == IF signed THEN Tail(s) ELSE s
        wellformed ==
            /\ raw # Null
            /\ Len(body) > 0
            /\ \A k \in 1..Len(body) : body[k] \in Digits \cup {"_"}
            /\ body[1] # "_" /\ body[Len(body)] # "_"
            /\ \A k \in 1..(Len(body) - 1) : ~(body[k] = "_" /\ body[k + 1] = "_")
    IN  IF ~wellformed THEN [ok |-> FALSE, val |-> 0]
        ELSE [ok |-> TRUE,
              val |-> IF signed /\ s[1] = "-" THEN 0 - DigitsToInt(body, 0)
                      ELSE DigitsToInt(body, 0)]

\* str(x) as the f-string renders a metadata value
PyStr(raw) == IF raw = Null THEN <<"N", "o", "n", "e">> ELSE raw

\* dict.get(key, default)
Get(metadata, key, default) ==
    IF metadata[key] = Absent THEN default ELSE metadata[key]

(***************************************************************************)
(* Regular expressions: a pattern is a sequence of items, each a character *)
(* class with a quantifier "1", "*" or "+".                                *)
(***************************************************************************)
One(cls) == [cls |-> cls, q |-> "1"]
Star(cls) == [cls |-> cls, q |-> "*"]
Plus(cls) == [cls |-> cls, q |-> "+"]
Lit(s) == [k \in 1..Len(s) |-> One({s[k]})]

RECURSIVE MatchAt(_, _, _, _)
MatchAt(pat, k, s, pos) ==
    IF k > Len(pat) THEN TRUE
    ELSE LET here == pos <= Len(s) /\ s[pos] \in pat[k].cls
         IN  CASE pat[k].q = "1" -> here /\ MatchAt(pat, k + 1, s, pos + 1)
               [] pat[k].q = "*" -> \/ MatchAt(pat, k + 1, s, pos)
                                    \/ here /\ MatchAt(pat, k, s, pos + 1)
               [] pat[k].q = "+" -> here /\ (\/ MatchAt(pat, k + 1, s, pos + 1)
                                             \/ MatchAt(pat, k, s, pos + 1))

\* re.search(pat, s)
Search(pat, s) == \E pos \in 1..(Len(s) + 1) : MatchAt(pat, 1, s, pos)
\* re.search('^' + pat, s, re.MULTILINE)
SearchLineStart(pat, s) ==
    \E pos \in 1..(Len(s) + 1) :
        /\ pos = 1 \/ s[pos - 1] = "\n"
        /\ MatchAt(pat, 1, s, pos)
\* re.search(pat, s, re.IGNORECASE), pat written in lower case
SearchIgnoreCase(pat, s) == Search(pat, Lower(s))
\* re.match(pat, s)
Match(pat, s) == MatchAt(pat, 1, s, 1)

(***************************************************************************)
(* Helpers of the source                                                   *)
(***************************************************************************)
\* FirstNumber for the pattern \d in place of \d+
FirstNumber_OneDigit(s) ==
    LET ds == {k \in 1..Len(s) : s[k] \in Digits}
    IN  IF ds = {} THEN <<>> ELSE <<s[SetMin(ds)]>>

\* the first maximal run of digits of s, <<>> when s has no digit
FirstNumber(s) ==
    LET ds == {k \in 1..Len(s) : s[k] \in Digits}
    IN  IF ds = {} THEN <<>>
        ELSE LET a == SetMin(ds)
                 stop == {k \in a..Len(s) : s[k] \notin Digits}
                 b == IF stop = {} THEN Len(s) ELSE SetMin(stop) - 1
             IN  SubSeq(s, a, b)

\* a Python tuple of strings, as GrobidParser fills 'pages'
PyTuple(elems) == <<"<tuple>">> \o elems
IsTuple(x) == Len(x) > 0 /\ x[1] = "<tuple>"

extract_page_number(pages_str) ==
    IF IsTuple(pages_str)
    THEN IF Len(pages_str) = 1 THEN 0
         ELSE IF ParseInt(pages_str[2]).ok THEN ParseInt(pages_str[2]).val ELSE 0
    ELSE IF pages_str = Null THEN 0
    ELSE IF FirstNumber(pages_str) = <<>> THEN 0
    ELSE DigitsToInt(FirstNumber(pages_str), 0)

UnknownSection ==
    <<"U", "n", "k", "n", "o", "w", "n", " ", "S", "e", "c", "t", "i", "o", "n">>
NoneLiteral == <<"N", "o", "n", "e">>
DefaultParagraphTitle == <<"P", "a", "r", "a", "g", "r", "a", "p", "h">>
DefaultOtherTitle == <<"U", "n", "k", "n", "o", "w", "n">>
DefaultNumber == <<"0">>

\* re.sub(r'\s\s', ' ', s): whitespace collapsed in pairs
RECURSIVE CollapseWhitespace_Pairs(_)
CollapseWhitespace_Pairs(s) ==
    IF Len(s) = 0 THEN <<>>
    ELSE IF Len(s) >= 2 /\ s[1] \in Whitespace /\ s[2] \in Whitespace
         THEN <<" ">> \o CollapseWhitespace_Pairs(SubSeq(s, 3, Len(s)))
         ELSE <<s[1]>> \o CollapseWhitespace_Pairs(Tail(s))

\* re.sub(r'\s+', ' ', s)
RECURSIVE CollapseWhitespace(_)
CollapseWhitespace(s) ==
    IF Len(s) = 0 THEN <<>>
    ELSE IF s[1] \in Whitespace
         THEN LET rest == {k \in 1..Len(s) : s[k] \notin Whitespace}
              IN  <<" ">> \o (IF rest = {} THEN <<>>
                              ELSE CollapseWhitespace(SubSeq(s, SetMin(rest), Len(s))))
         ELSE <<s[1]>> \o CollapseWhitespace(Tail(s))

\* clean_section_title that gives the default for None only, not for ''
clean_section_title_EmptyKept(title) ==
    IF title = Null \/ title = NoneLiteral THEN UnknownSection
    ELSE CollapseWhitespace(Strip(title))

\* clean_section_title without the re.sub of line 387
clean_section_title_StripOnly(title) ==
    IF title = Null \/ title = <<>> \/ title = NoneLiteral THEN UnknownSection
    ELSE Strip(title)

clean_section_title(title) ==
    IF title = Null \/ title = <<>> \/ title = NoneLiteral THEN UnknownSection
    ELSE CollapseWhitespace(Strip(title))

table_indicators ==
    << <<One({"|"}), Star(Whitespace)>>,
       <<Plus(Whitespace), One({"|"}), Plus(Whitespace)>>,
       Lit(<<"T", "a", "b", "l", "e">>) \o <<Plus(Whitespace), Plus(Digits)>> >>
table_line_indicators ==
    << <<Star(Whitespace), Plus(Digits), Plus(Whitespace), Plus(Digits),
         Plus(Whitespace), Plus(Digits)>>,
       <<Star(Whitespace), One(Upper), Plus(Whitespace), One(Upper),
         Plus(Whitespace), One(Upper)>> >>

is_table_content(content) ==
    LET lines == SplitLines(content)
        pipe_count == Cardinality({k \in 1..Len(lines) : Contains(lines[k], <<"|">>)})
    IN  \/ \E k \in 1..Len(table_indicators) : Search(table_indicators[k], content)
        \/ \E k \in 1..Len(table_line_indicators) :
               SearchLineStart(table_line_indicators[k], content)
        \/ Len(lines) > 2 /\ 10 * pipe_count > 3 * Len(lines)

figure_indicators ==
    << Lit(<<"f", "i", "g", "u", "r", "e">>) \o <<Plus(Whitespace), Plus(Digits)>>,
       Lit(<<"f", "i", "g", ".">>) \o <<Plus(Whitespace), Plus(Digits)>>,
       Lit(<<"[", "f", "i", "g", "u", "r", "e">>),
       Lit(<<"[", "i", "m", "a", "g", "e">>),
       Lit(<<"[", "g", "r", "a", "p", "h">>),
       Lit(<<"[", "c", "h", "a", "r", "t">>) >>

is_figure_content(content) ==
    \E k \in 1..Len(figure_indicators) : SearchIgnoreCase(figure_indicators[k], content)

HeaderMaxLen == 200

\* determine_section_type comparing the text with the hint as written,
\* without lower()
determine_section_type_CaseSensitive(metadata, content) ==
    LET section_title == Get(metadata, "section_title", <<>>)
    IN  IF section_title # Null /\ section_title # <<>> /\ section_title # NoneLiteral
        THEN IF /\ Len(Strip(content)) < HeaderMaxLen
                /\ Contains(section_title, Strip(content))
             THEN "header" ELSE "paragraph"
        ELSE IF is_table_content(content) THEN "table"
        ELSE IF is_figure_content(content) THEN "figure"
        ELSE "paragraph"

determine_section_type(metadata, content) ==
    LET section_title == Get(metadata, "section_title", <<>>)
    IN  IF section_title # Null /\ section_title # <<>> /\ section_title # NoneLiteral
        THEN IF /\ Len(Strip(content)) < HeaderMaxLen
                /\ Contains(Lower(section_title), Lower(Strip(content)))
             THEN "header" ELSE "paragraph"
        ELSE IF is_table_content(content) THEN "table"
        ELSE IF is_figure_content(content) THEN "figure"
        ELSE "paragraph"

is_purely_tabular(content) ==
    LET lines == SplitLines(content)
        pipe_lines == Cardinality({k \in 1..Len(lines) : Contains(lines[k], <<"|">>)})
        number_lines == Cardinality({k \in 1..Len(lines) :
                            Match(<<Star(Whitespace), Plus(Digits)>>, lines[k])})
        total_lines == Cardinality({k \in 1..Len(lines) : Strip(lines[k]) # <<>>})
    IN  IF total_lines = 0 THEN TRUE
        ELSE 10 * (pipe_lines + number_lines) > 7 * total_lines

MinContentLen == 50

\* should_include_content with headers put through the table/figure filter
should_include_content_HeaderFiltered(section_type, content) ==
    IF section_type = "paragraph" THEN TRUE
    ELSE IF section_type \in {"header", "table", "figure"}
         THEN Len(Strip(content)) > MinContentLen /\ ~is_purely_tabular(content)
         ELSE FALSE

\* should_include_content without the purely-tabular test of line 315
should_include_content_LengthOnly(section_type, content) ==
    IF section_type \in {"header", "paragraph"} THEN TRUE
    ELSE IF section_type \in {"table", "figure"}
         THEN Len(Strip(content)) > MinContentLen
         ELSE FALSE

should_include_content(section_type, content) ==
    IF section_type \in {"header", "paragraph"} THEN TRUE
    ELSE IF section_type \in {"table", "figure"}
         THEN Len(Strip(content)) > MinContentLen /\ ~is_purely_tabular(content)
         ELSE FALSE

\* should_continue_paragraph without the same-page rule of line 288
should_continue_paragraph_CrossPageOnly(current_metadata, previous_paragraph) ==
    IF previous_paragraph = <<>> THEN FALSE
    ELSE LET prev_metadata == previous_paragraph[1].metadata
             current_page == extract_page_number(Get(current_metadata, "pages", DefaultNumber))
             prev_page == extract_page_number(Get(prev_metadata, "pages", DefaultNumber))
             current_para == ParseInt(Get(current_metadata, "para", DefaultNumber)).val
         IN  current_page = prev_page + 1 /\ current_para = 1

\* should_continue_paragraph without the next-page rule of line 292
should_continue_paragraph_SamePageOnly(current_metadata, previous_paragraph) ==
    IF previous_paragraph = <<>> THEN FALSE
    ELSE LET prev_metadata == previous_paragraph[1].metadata
             current_page == extract_page_number(Get(current_metadata, "pages", DefaultNumber))
             prev_page == extract_page_number(Get(prev_metadata, "pages", DefaultNumber))
             current_para == ParseInt(Get(current_metadata, "para", DefaultNumber)).val
             prev_para == ParseInt(Get(prev_metadata, "para", DefaultNumber)).val
         IN  current_page = prev_page /\ current_para = prev_para + 1

\* should_continue_paragraph that also continues a paragraph with the same
\* title hint, whatever the positions
should_continue_paragraph_SameTitle(current_metadata, previous_paragraph) ==
    IF previous_paragraph = <<>> THEN FALSE
    ELSE LET prev_metadata == previous_paragraph[1].metadata
             current_page == extract_page_number(Get(current_metadata, "pages", DefaultNumber))
             prev_page == extract_page_number(Get(prev_metadata, "pages", DefaultNumber))
             current_para == ParseInt(Get(current_metadata, "para", DefaultNumber)).val
             prev_para == ParseInt(Get(prev_metadata, "para", DefaultNumber)).val
         IN  \/ current_page = prev_page /\ current_para = prev_para + 1
             \/ current_page = prev_page + 1 /\ current_para = 1
             \/ current_metadata.section_title = prev_metadata.section_title

\* previous_paragraph is <<>> for None and <<data>> for a dict
should_continue_paragraph(current_metadata, previous_paragraph) ==
    IF previous_paragraph = <<>> THEN FALSE
    ELSE LET prev_metadata == previous_paragraph[1].metadata
             current_page == extract_page_number(Get(current_metadata, "pages", DefaultNumber))
             prev_page == extract_page_number(Get(prev_metadata, "pages", DefaultNumber))
             current_para == ParseInt(Get(current_metadata, "para", DefaultNumber)).val
             prev_para == ParseInt(Get(prev_metadata, "para", DefaultNumber)).val
         IN  \/ current_page = prev_page /\ current_para = prev_para + 1
             \/ current_page = prev_page + 1 /\ current_para = 1

create_paragraph_section(paragraph_data) ==
    LET metadata == paragraph_data.metadata
        content == Join(paragraph_data.content_parts, <<" ">>)
    IN  [title |-> clean_section_title(Get(metadata, "section_title", DefaultParagraphTitle)),
         content |-> content,
         page |-> extract_page_number(Get(metadata, "pages", DefaultNumber)),
         paragraph |-> Get(metadata, "para", DefaultNumber),
         content_length |-> Len(content),
         type |-> "paragraph"]

IdPrefixLen == 50

\* the f-string of line 123
section_id(metadata, content) ==
    IntToStr(extract_page_number(Get(metadata, "pages", DefaultNumber)))
        \o <<"_">> \o PyStr(Get(metadata, "para", DefaultNumber))
        \o <<"_">> \o Take(content, IdPrefixLen)

\* a sort key that leaves out the paragraph number
SortKey_PageOnly(doc) ==
    [page |-> extract_page_number(Get(doc.metadata, "pages", DefaultNumber)),
     para |-> 0]

\* the sort key of lines 102-105
SortKey(doc) ==
    [page |-> extract_page_number(Get(doc.metadata, "pages", DefaultNumber)),
     para |-> ParseInt(Get(doc.metadata, "para", DefaultNumber)).val]

KeyLess(a, b) == a.page < b.page \/ (a.page = b.page /\ a.para < b.para)

\* the pass run on the input order, the sort left out
StableSort_InputOrder(ds) == ds

\* a sort that is not stable: a fragment is put before the fragments with
\* an equal key
RECURSIVE StableSort_TiesReversed(_)
StableSort_TiesReversed(ds) ==
    IF Len(ds) <= 1 THEN ds
    ELSE LET front == StableSort_TiesReversed(SubSeq(ds, 1, Len(ds) - 1))
             last == ds[Len(ds)]
             after == {k \in 1..Len(front) : ~KeyLess(SortKey(front[k]), SortKey(last))}
             at == IF after = {} THEN Len(front) + 1 ELSE SetMin(after)
         IN  SubSeq(front, 1, at - 1) \o <<last>> \o SubSeq(front, at, Len(front))

\* sorted(docs, key=...): stable, equal keys keep their input order
RECURSIVE StableSort(_)
StableSort(ds) ==
    IF Len(ds) <= 1 THEN ds
    ELSE LET front == StableSort(SubSeq(ds, 1, Len(ds) - 1))
             last == ds[Len(ds)]
             after == {k \in 1..Len(front) : KeyLess(SortKey(last), SortKey(front[k]))}
             at == IF after = {} THEN Len(front) + 1 ELSE SetMin(after)
         IN  SubSeq(front, 1, at - 1) \o <<last>> \o SubSeq(front, at, Len(front))

(***************************************************************************)
(* Inputs: the fragment lists the pass is run on                           *)
(***************************************************************************)
MaxDocs == 3

Rep(c, n) == [k \in 1..n |-> c]

Doc(pages, para, section_title, text) ==
    [metadata |-> [pages |-> pages, para |-> para, section_title |-> section_title],
     page_content |-> text]

Hello == <<"H", "e", "l", "l", "o">>
World == <<"w", "o", "r", "l", "d", ".">>
IntroText == <<"i", "n", "t", "r", "o", " ">>
Blank == <<" ">>
ShortTable ==
    <<"|", " ", "A", " ", "|", " ", "B", " ", "|", "\n",
      "|", " ", "1", " ", "|", " ", "2", " ", "|", "\n",
      "|", " ", "3", " ", "|", " ", "4", " ", "|">>
LongTable == <<"T", "a", "b", "l", "e", " ", "1", " ">> \o Rep("a", 50)
PrefixedHello == <<"2", "_">> \o Hello
LongA == Rep("a", 50) \o <<"x">>
LongB == Rep("a", 50) \o <<"y">>
LongTabular == <<"|", " ">> \o Rep("1", 50)
LongFigure == <<"F", "i", "g", "u", "r", "e", " ", "1", " ">> \o Rep("b", 50)
Intro == <<"I", "n", "t", "r", "o">>
Methods == <<"M", "e", "t", "h", "o", "d", "s">>

Fragments ==
    { Doc(<<"1">>, <<"1">>, Absent, Hello),
      Doc(<<"1">>, <<"2">>, Absent, World),
      Doc(<<"2">>, <<"1">>, Methods, World),
      Doc(<<"1">>, <<"2">>, Intro, IntroText),
      Doc(<<"1">>, <<"0", "1">>, Absent, Hello),
      Doc(<<"1">>, <<"1", "_", "2">>, Absent, Hello),
      Doc(<<"1">>, <<"1">>, Absent, PrefixedHello),
      Doc(<<"1">>, <<"x">>, Absent, Hello),
      Doc(<<"1">>, Null, Absent, Hello),
      Doc(<<"1">>, <<"1">>, Absent, Blank),
      Doc(<<"1">>, <<"2">>, Absent, ShortTable),
      Doc(<<"2">>, <<"1">>, Absent, LongTable),
      Doc(<<"2">>, <<"2">>, Null, Hello),
      Doc(<<"1">>, <<"1">>, Absent, LongA),
      Doc(<<"1">>, <<"1">>, Intro, LongB),
      Doc(<<"2">>, <<"2">>, Absent, LongTabular),
      Doc(<<"2">>, <<"2">>, Absent, LongFigure),
      Doc(<<"0">>, <<"5">>, Absent, World) }

DocLists == UNION {[1..n -> Fragments] : n \in 0..MaxDocs}

\* fragments that make runs of three and four consecutive paragraphs on one
\* page, with a header, a table, an empty and a malformed fragment to
\* interrupt them, and with title hints that are empty or blank
RunSeq ==
    <<Doc(<<"1">>, <<"1">>, Absent, Hello),
       Doc(<<"1">>, <<"2">>, Absent, World),
       Doc(<<"1">>, <<"3">>, Intro, Hello),
       Doc(<<"1">>, <<"4">>, Absent, World),
       Doc(<<"1">>, <<"2">>, Absent, ShortTable),
       Doc(<<"1">>, <<"1">>, Intro, IntroText),
       Doc(<<"1">>, <<"1">>, Absent, Blank),
       Doc(<<"1">>, <<"x">>, Absent, Hello),
       Doc(<<"1">>, <<"2">>, <<" ", " ">>, World),
       Doc(<<"1">>, <<"3">>, <<>>, Hello) >>
RunFragments == {RunSeq[k] : k \in 1..Len(RunSeq)}
RunLists == UNION {[1..n -> RunFragments] : n \in 0..(MaxDocs + 1)}

AllFragments == Fragments \cup RunFragments

(***************************************************************************)
(* process_sequential_sections, one action per step of the pass            *)
(***************************************************************************)
\* no pass has started
PassIdle ==
    /\ sorted_docs = <<>>
    /\ i = 1
    /\ sequential_sections = <<>>
    /\ current_paragraph = <<>>
    /\ paragraph_buffer = <<>>
    /\ seen_sections = {}
    /\ section_src = <<>>
    /\ buffer_src = <<>>
    /\ trace = <<>>

\* no report has been started, lines 54-57 not yet run
ReportIdle ==
    /\ formatted_content = <<>>
    /\ current_title = Null
    /\ section_index = 0
    /\ report_pos = 1
    /\ output_file = <<>>

Init ==
    /\ docs \in DocLists
    /\ pc = "call"
    /\ PassIdle
    /\ ReportIdle
    /\ calls = <<>>
    /\ pending = <<>>
    /\ helper_call = <<>>

ParaOk(doc) == ParseInt(Get(doc.metadata, "para", DefaultNumber)).ok

\* lines 102-105: int() of a malformed 'para' raises inside the sort key
SortRaises ==
    /\ pc = "call"
    /\ \E k \in 1..Len(docs) : ~ParaOk(docs[k])
    /\ pc' = "raised"
    /\ UNCHANGED <<docs, sorted_docs, i, sequential_sections, current_paragraph,
                   paragraph_buffer, seen_sections, section_src, buffer_src, trace,
                   caller_vars>>

\* SortDocs with the deduplication set kept at module level instead of
\* being created by line 110
SortDocs_SharedSeen ==
    /\ pc = "call"
    /\ \A k \in 1..Len(docs) : ParaOk(docs[k])
    /\ sorted_docs' = StableSort(docs)
    /\ i' = 1
    /\ sequential_sections' = <<>>
    /\ current_paragraph' = <<>>
    /\ paragraph_buffer' = <<>>
    /\ section_src' = <<>>
    /\ buffer_src' = <<>>
    /\ trace' = <<>>
    /\ pc' = "loop"
    /\ UNCHANGED <<docs, seen_sections, caller_vars>>

\* SortDocs with docs.sort(key=...) in place of sorted(docs, key=...)
SortDocs_InPlace ==
    /\ pc = "call"
    /\ \A k \in 1..Len(docs) : ParaOk(docs[k])
    /\ docs' = StableSort(docs)
    /\ sorted_docs' = docs'
    /\ i' = 1
    /\ sequential_sections' = <<>>
    /\ current_paragraph' = <<>>
    /\ paragraph_buffer' = <<>>
    /\ seen_sections' = {}
    /\ section_src' = <<>>
    /\ buffer_src' = <<>>
    /\ trace' = <<>>
    /\ pc' = "loop"
    /\ UNCHANGED caller_vars

\* lines 101-110
SortDocs ==
    /\ pc = "call"
    /\ \A k \in 1..Len(docs) : ParaOk(docs[k])
    /\ sorted_docs' = StableSort(docs)
    /\ i' = 1
    /\ sequential_sections' = <<>>
    /\ current_paragraph' = <<>>
    /\ paragraph_buffer' = <<>>
    /\ seen_sections' = {}
    /\ section_src' = <<>>
    /\ buffer_src' = <<>>
    /\ trace' = <<>>
    /\ pc' = "loop"
    /\ UNCHANGED <<docs, caller_vars>>

\* The values the pass computes from one fragment alone, tabulated over the
\* inputs: line 114, line 120, line 123 and line 158.
content_of == [d \in AllFragments |-> Strip(d.page_content)]
section_type_of == [d \in AllFragments |-> determine_section_type(d.metadata, content_of[d])]
section_id_of == [d \in AllFragments |-> section_id(d.metadata, content_of[d])]
include_of == [d \in AllFragments |-> should_include_content(section_type_of[d], content_of[d])]

InLoop == pc = "loop" /\ i <= Len(sorted_docs)
CurMetadata == sorted_docs[i].metadata
CurContent == content_of[sorted_docs[i]]
CurType == section_type_of[sorted_docs[i]]
CurId == section_id_of[sorted_docs[i]]

\* SkipEmpty with the emptiness test placed after line 128
SkipEmpty_RegistersId ==
    /\ InLoop
    /\ CurContent = <<>>
    /\ seen_sections' = seen_sections \cup {CurId}
    /\ i' = i + 1
    /\ trace' = Append(trace, "empty")
    /\ UNCHANGED <<docs, pc, sorted_docs, sequential_sections, current_paragraph,
                   paragraph_buffer, section_src, buffer_src,
                   caller_vars>>

\* lines 114-117
SkipEmpty ==
    /\ InLoop
    /\ CurContent = <<>>
    /\ i' = i + 1
    /\ trace' = Append(trace, "empty")
    /\ UNCHANGED <<docs, pc, sorted_docs, sequential_sections, current_paragraph,
                   paragraph_buffer, seen_sections, section_src, buffer_src,
                   caller_vars>>

\* SkipDuplicate placed after the flush of lines 152-155: a duplicate that
\* is not a paragraph closes the open paragraph before it is skipped
SkipDuplicate_ClosesParagraph ==
    /\ InLoop
    /\ CurContent # <<>>
    /\ CurId \in seen_sections
    /\ i' = i + 1
    /\ trace' = Append(trace, "duplicate")
    /\ IF CurType # "paragraph" /\ current_paragraph # <<>>
       THEN /\ sequential_sections' =
                   Append(sequential_sections, create_paragraph_section(current_paragraph[1]))
            /\ section_src' = Append(section_src, buffer_src)
            /\ current_paragraph' = <<>>
            /\ paragraph_buffer' = <<>>
            /\ buffer_src' = <<>>
       ELSE UNCHANGED <<sequential_sections, section_src, current_paragraph,
                        paragraph_buffer, buffer_src>>
    /\ UNCHANGED <<docs, pc, sorted_docs, seen_sections,
                   caller_vars>>

\* lines 122-127
SkipDuplicate ==
    /\ InLoop
    /\ CurContent # <<>>
    /\ CurId \in seen_sections
    /\ i' = i + 1
    /\ trace' = Append(trace, "duplicate")
    /\ UNCHANGED <<docs, pc, sorted_docs, sequential_sections, current_paragraph,
                   paragraph_buffer, seen_sections, section_src, buffer_src,
                   caller_vars>>

Fresh == InLoop /\ CurContent # <<>> /\ CurId \notin seen_sections

\* ContinueParagraph that keeps the metadata of the fragment that opened the
\* buffer, so that the next test compares with the opener
ContinueParagraph_KeepOpenerMetadata ==
    /\ Fresh
    /\ CurType = "paragraph"
    /\ should_continue_paragraph(CurMetadata, current_paragraph)
    /\ seen_sections' = seen_sections \cup {CurId}
    /\ paragraph_buffer' = Append(paragraph_buffer, CurContent)
    /\ current_paragraph' = <<[metadata |-> current_paragraph[1].metadata,
                               content_parts |-> paragraph_buffer']>>
    /\ buffer_src' = Append(buffer_src, i)
    /\ i' = i + 1
    /\ trace' = Append(trace, "continue")
    /\ UNCHANGED <<docs, pc, sorted_docs, sequential_sections, section_src,
                   caller_vars>>

\* lines 128, 131-138
ContinueParagraph ==
    /\ Fresh
    /\ CurType = "paragraph"
    /\ should_continue_paragraph(CurMetadata, current_paragraph)
    /\ seen_sections' = seen_sections \cup {CurId}
    /\ paragraph_buffer' = Append(paragraph_buffer, CurContent)
    /\ current_paragraph' = <<[metadata |-> CurMetadata,
                               content_parts |-> paragraph_buffer']>>
    /\ buffer_src' = Append(buffer_src, i)
    /\ i' = i + 1
    /\ trace' = Append(trace, "continue")
    /\ UNCHANGED <<docs, pc, sorted_docs, sequential_sections, section_src,
                   caller_vars>>

\* lines 128, 131-132, 139-149
StartParagraph ==
    /\ Fresh
    /\ CurType = "paragraph"
    /\ ~should_continue_paragraph(CurMetadata, current_paragraph)
    /\ seen_sections' = seen_sections \cup {CurId}
    /\ IF current_paragraph # <<>>
       THEN /\ sequential_sections' =
                   Append(sequential_sections, create_paragraph_section(current_paragraph[1]))
            /\ section_src' = Append(section_src, buffer_src)
       ELSE UNCHANGED <<sequential_sections, section_src>>
    /\ paragraph_buffer' = <<CurContent>>
    /\ current_paragraph' = <<[metadata |-> CurMetadata,
                               content_parts |-> paragraph_buffer']>>
    /\ buffer_src' = <<i>>
    /\ i' = i + 1
    /\ trace' = Append(trace, "start")
    /\ UNCHANGED <<docs, pc, sorted_docs,
                   caller_vars>>

\* the section of lines 159-166
OtherSection(metadata, content, section_type) ==
    [title |-> clean_section_title(Get(metadata, "section_title", DefaultOtherTitle)),
     content |-> content,
     page |-> extract_page_number(Get(metadata, "pages", DefaultNumber)),
     paragraph |-> Get(metadata, "para", DefaultNumber),
     content_length |-> Len(content),
     type |-> section_type]

\* NonParagraph with the flush of lines 152-155 moved inside the test of
\* line 158: a dropped fragment leaves the open paragraph open
NonParagraph_KeepOpenOnDrop ==
    /\ Fresh
    /\ CurType # "paragraph"
    /\ seen_sections' = seen_sections \cup {CurId}
    /\ IF include_of[sorted_docs[i]]
       THEN /\ sequential_sections' =
                   Append(IF current_paragraph # <<>>
                          THEN Append(sequential_sections,
                                      create_paragraph_section(current_paragraph[1]))
                          ELSE sequential_sections,
                          OtherSection(CurMetadata, CurContent, CurType))
            /\ section_src' =
                   Append(IF current_paragraph # <<>>
                          THEN Append(section_src, buffer_src) ELSE section_src,
                          <<i>>)
            /\ trace' = Append(trace, "emit")
            /\ current_paragraph' = <<>>
            /\ paragraph_buffer' = <<>>
            /\ buffer_src' = <<>>
       ELSE /\ trace' = Append(trace, "drop")
            /\ UNCHANGED <<sequential_sections, section_src, current_paragraph,
                           paragraph_buffer, buffer_src>>
    /\ i' = i + 1
    /\ UNCHANGED <<docs, pc, sorted_docs,
                   caller_vars>>

\* lines 128, 150-166
NonParagraph ==
    /\ Fresh
    /\ CurType # "paragraph"
    /\ seen_sections' = seen_sections \cup {CurId}
    /\ LET flushed == IF current_paragraph # <<>>
                      THEN Append(sequential_sections,
                                  create_paragraph_section(current_paragraph[1]))
                      ELSE sequential_sections
           flushed_src == IF current_paragraph # <<>>
                          THEN Append(section_src, buffer_src)
                          ELSE section_src
       IN  IF include_of[sorted_docs[i]]
           THEN /\ sequential_sections' =
                       Append(flushed, OtherSection(CurMetadata, CurContent, CurType))
                /\ section_src' = Append(flushed_src, <<i>>)
                /\ trace' = Append(trace, "emit")
           ELSE /\ sequential_sections' = flushed
                /\ section_src' = flushed_src
                /\ trace' = Append(trace, "drop")
    /\ IF current_paragraph # <<>>
       THEN /\ current_paragraph' = <<>>
            /\ paragraph_buffer' = <<>>
            /\ buffer_src' = <<>>
       ELSE UNCHANGED <<current_paragraph, paragraph_buffer, buffer_src>>
    /\ i' = i + 1
    /\ UNCHANGED <<docs, pc, sorted_docs,
                   caller_vars>>

\* Return without the flush of lines 169-170
Return_NoFinalFlush ==
    /\ pc = "loop"
    /\ i > Len(sorted_docs)
    /\ pc' = "returned"
    /\ UNCHANGED <<docs, sorted_docs, i, sequential_sections, current_paragraph,
                   paragraph_buffer, seen_sections, section_src, buffer_src, trace,
                   caller_vars>>

\* lines 168-172
Return ==
    /\ pc = "loop"
    /\ i > Len(sorted_docs)
    /\ IF current_paragraph # <<>>
       THEN /\ sequential_sections' =
                   Append(sequential_sections, create_paragraph_section(current_paragraph[1]))
            /\ section_src' = Append(section_src, buffer_src)
       ELSE UNCHANGED <<sequential_sections, section_src>>
    /\ pc' = "returned"
    /\ UNCHANGED <<docs, sorted_docs, i, current_paragraph, paragraph_buffer,
                   seen_sections, buffer_src, trace,
                   caller_vars>>

Next ==
    \/ SortRaises
    \/ SortDocs
    \/ SkipEmpty
    \/ SkipDuplicate
    \/ ContinueParagraph
    \/ StartParagraph
    \/ NonParagraph
    \/ Return

Spec == Init /\ [][Next]_vars

\* The loop of lines 112-166 and the flush after it run in one thread with
\* nothing to wait for: once the loop is entered, a step that can be taken
\* is taken.
LiveFragments ==
    { Doc(<<"1">>, <<"1">>, Absent, Hello),
      Doc(<<"1">>, <<"2">>, Absent, World),
      Doc(<<"1">>, <<"x">>, Absent, Hello),
      Doc(<<"1">>, <<"1">>, Absent, Blank),
      Doc(<<"1">>, <<"2">>, Absent, ShortTable),
      Doc(<<"2">>, <<"1">>, Absent, LongTable),
      Doc(<<"2">>, <<"2">>, Null, Hello) }

InitLive ==
    /\ docs \in UNION {[1..n -> LiveFragments] : n \in 0..MaxDocs}
    /\ pc = "call"
    /\ PassIdle
    /\ ReportIdle
    /\ calls = <<>>
    /\ pending = <<>>
    /\ helper_call = <<>>

Fairness ==
    /\ WF_vars(SkipEmpty)
    /\ WF_vars(SkipDuplicate)
    /\ WF_vars(ContinueParagraph)
    /\ WF_vars(StartParagraph)
    /\ WF_vars(NonParagraph)
    /\ WF_vars(Return)

InitRuns ==
    /\ docs \in RunLists
    /\ pc = "call"
    /\ PassIdle
    /\ ReportIdle
    /\ calls = <<>>
    /\ pending = <<>>
    /\ helper_call = <<>>

SpecRuns == InitRuns /\ [][Next]_vars

SpecLive == InitLive /\ [][Next]_vars /\ Fairness

(***************************************************************************)
(* A caller that runs the pass several times in one process: when a call   *)
(* has returned, its result is recorded and the next input is passed in.   *)
(* The locals of the finished call are left as they are; lines 101-110 of  *)
(* the next call create them anew.                                         *)
(***************************************************************************)
CallAgain ==
    /\ pc = "returned"
    /\ pending # <<>>
    /\ calls' = Append(calls, [docs |-> docs, result |-> sequential_sections])
    /\ docs' = Head(pending)
    /\ pending' = Tail(pending)
    /\ pc' = "call"
    /\ UNCHANGED <<sorted_docs, i, sequential_sections, current_paragraph,
                   paragraph_buffer, seen_sections, section_src, buffer_src, trace,
                   formatted_content, current_title, section_index, report_pos,
                   output_file, helper_call>>

\* the inputs of the repeated calls: a list, then possibly a part of it as
\* another call, then the same list again
RepeatLists == UNION {[1..n -> Fragments] : n \in 0..(MaxDocs - 1)}

InitTwice ==
    /\ docs \in RepeatLists
    /\ pending \in {<<docs>>} \cup {<<SubSeq(docs, 1, n), docs>> : n \in 1..Len(docs)}
    /\ pc = "call"
    /\ PassIdle
    /\ ReportIdle
    /\ calls = <<>>
    /\ helper_call = <<>>

NextTwice ==
    \/ SortRaises
    \/ SortDocs
    \/ SkipEmpty
    \/ SkipDuplicate
    \/ ContinueParagraph
    \/ StartParagraph
    \/ NonParagraph
    \/ Return
    \/ CallAgain

SpecTwice == InitTwice /\ [][NextTwice]_vars

\* the pass called on a list of different fragments and then on a
\* permutation of that list
PermutationsOf(ds) ==
    {[k \in 1..Len(ds) |-> ds[f[k]]] :
        f \in {g \in [1..Len(ds) -> 1..Len(ds)] : \A x, y \in 1..Len(ds) : x # y => g[x] # g[y]}}
\* the fragments to pick from: the runs, and two fragments with different
\* positions and the same identifier
PermSeq ==
    RunSeq \o <<Doc(<<"1">>, <<"1", "_", "2">>, Absent, Hello),
                Doc(<<"1">>, <<"1">>, Absent, PrefixedHello)>>
Picks ==
    UNION {{f \in [1..n -> 1..Len(PermSeq)] : \A x, y \in 1..n : x < y => f[x] < f[y]} :
              n \in 0..MaxDocs}

InitPermuted ==
    /\ \E f \in Picks : docs = [k \in 1..Len(f) |-> PermSeq[f[k]]]
    /\ pending \in {<<p>> : p \in PermutationsOf(docs)}
    /\ pc = "call"
    /\ PassIdle
    /\ ReportIdle
    /\ calls = <<>>
    /\ helper_call = <<>>

SpecPermuted == InitPermuted /\ [][NextTwice]_vars

(***************************************************************************)
(* extract_pdf_with_grobid_sequential: load the fragments, run the pass,   *)
(* format the report and write it.  The report is kept as the sequence of  *)
(* the pieces appended to formatted_content: a header piece holds the      *)
(* three values interpolated into the header text, a content piece the     *)
(* Section's content.                                                      *)
(***************************************************************************)
Header(index, title, page) ==
    [kind |-> "header", index |-> index, title |-> title, page |-> page, text |-> <<>>]
Content(text) ==
    [kind |-> "content", index |-> 0, title |-> <<>>, page |-> 0, text |-> text]

RestOfExtract == <<sorted_docs, i, sequential_sections, current_paragraph,
                   paragraph_buffer, seen_sections, section_src, buffer_src, trace,
                   calls, pending, helper_call>>

\* line 42: loader.load() fails, e.g. the GROBID server does not answer
LoadRaises ==
    /\ pc = "load"
    /\ pc' = "raised"
    /\ UNCHANGED <<docs, RestOfExtract, formatted_content, current_title,
                   section_index, report_pos, output_file>>

\* lines 44-46
NoDocuments ==
    /\ pc = "load"
    /\ docs = <<>>
    /\ pc' = "exit"
    /\ UNCHANGED <<docs, RestOfExtract, formatted_content, current_title,
                   section_index, report_pos, output_file>>

\* lines 48-51: the pass is called on the loaded fragments
Loaded ==
    /\ pc = "load"
    /\ docs # <<>>
    /\ pc' = "call"
    /\ UNCHANGED <<docs, RestOfExtract, formatted_content, current_title,
                   section_index, report_pos, output_file>>

\* lines 54-57
BeginReport ==
    /\ pc = "returned"
    /\ formatted_content' = <<>>
    /\ current_title' = Null
    /\ section_index' = 0
    /\ report_pos' = 1
    /\ pc' = "format"
    /\ UNCHANGED <<docs, RestOfExtract, output_file>>

\* the loop body with the title comparison of line 64 left out
FormatSection_HeaderEverySection ==
    /\ pc = "format"
    /\ report_pos <= Len(sequential_sections)
    /\ LET section_data == sequential_sections[report_pos]
       IN  /\ section_index' = section_index + 1
           /\ current_title' = section_data.title
           /\ formatted_content' =
                  formatted_content
                      \o <<Header(section_index + 1, section_data.title, section_data.page),
                           Content(section_data.content)>>
    /\ report_pos' = report_pos + 1
    /\ UNCHANGED <<docs, pc, RestOfExtract, output_file>>

\* the loop body writing the report to the file as it goes
FormatSection_WritesAsItGoes ==
    /\ pc = "format"
    /\ report_pos <= Len(sequential_sections)
    /\ LET section_data == sequential_sections[report_pos]
           title == section_data.title
           content == section_data.content
       IN  IF title # current_title
           THEN /\ section_index' = section_index + 1
                /\ current_title' = title
                /\ formatted_content' =
                       formatted_content
                           \o <<Header(section_index + 1, title, section_data.page),
                                Content(content)>>
           ELSE /\ formatted_content' = Append(formatted_content, Content(content))
                /\ UNCHANGED <<section_index, current_title>>
    /\ output_file' = <<formatted_content'>>
    /\ report_pos' = report_pos + 1
    /\ UNCHANGED <<docs, pc, RestOfExtract>>

\* lines 59-77, one Section
FormatSection ==
    /\ pc = "format"
    /\ report_pos <= Len(sequential_sections)
    /\ LET section_data == sequential_sections[report_pos]
           title == section_data.title
           content == section_data.content
       IN  IF title # current_title
           THEN /\ section_index' = section_index + 1
                /\ current_title' = title
                /\ formatted_content' =
                       formatted_content
                           \o <<Header(section_index + 1, title, section_data.page),
                                Content(content)>>
           ELSE /\ formatted_content' = Append(formatted_content, Content(content))
                /\ UNCHANGED <<section_index, current_title>>
    /\ report_pos' = report_pos + 1
    /\ UNCHANGED <<docs, pc, RestOfExtract, output_file>>

\* lines 79-86
WriteFile ==
    /\ pc = "format"
    /\ report_pos > Len(sequential_sections)
    /\ output_file' = <<formatted_content>>
    /\ pc' = "exit"
    /\ UNCHANGED <<docs, RestOfExtract, formatted_content, current_title,
                   section_index, report_pos>>

\* line 80: open() fails, e.g. the output directory does not exist
WriteRaises ==
    /\ pc = "format"
    /\ report_pos > Len(sequential_sections)
    /\ pc' = "raised"
    /\ UNCHANGED <<docs, RestOfExtract, formatted_content, current_title,
                   section_index, report_pos, output_file>>

\* lines 88-89: the error is printed and the function returns normally
CatchException ==
    /\ pc = "raised"
    /\ pc' = "exit"
    /\ UNCHANGED <<docs, RestOfExtract, formatted_content, current_title,
                   section_index, report_pos, output_file>>

InitExtract ==
    /\ docs \in DocLists
    /\ pc = "load"
    /\ PassIdle
    /\ ReportIdle
    /\ calls = <<>>
    /\ pending = <<>>
    /\ helper_call = <<>>

NextExtract ==
    \/ LoadRaises
    \/ NoDocuments
    \/ Loaded
    \/ SortRaises
    \/ SortDocs
    \/ SkipEmpty
    \/ SkipDuplicate
    \/ ContinueParagraph
    \/ StartParagraph
    \/ NonParagraph
    \/ Return
    \/ BeginReport
    \/ FormatSection
    \/ WriteFile
    \/ WriteRaises
    \/ CatchException

SpecExtract == InitExtract /\ [][NextExtract]_vars

(***************************************************************************)
(* The helpers called on their own, on inputs the fragment lists above do  *)
(* not cover.  helper_call holds the function, its argument and, once the  *)
(* call is done, its result.                                               *)
(***************************************************************************)
MaxLines == 3

PageInputs ==
    { <<"3">>, <<"0", "0", "7">>, <<"x">>, <<>>, Null,
      <<"p", "p", ".", " ", "1", "2", "-", "1", "3">>,
      <<"(", "3", ",", " ", "4", ")">>,
      PyTuple(<< <<"4">>, <<"5">> >>),
      PyTuple(<< <<"x">>, <<"5">> >>),
      PyTuple(<<>>) }

PageDocs ==
    { Doc(<<"x">>, <<"1">>, Absent, Hello),
      Doc(<<"2">>, <<"1">>, Absent, Hello),
      Doc(<<"1">>, <<"2">>, Absent, World),
      Doc(Absent, <<"3">>, Absent, World),
      Doc(PyTuple(<< <<"x">>, <<"5">> >>), <<"2">>, Absent, World) }
PageDocLists == [1..2 -> PageDocs]

TitleInputs ==
    { Absent, Null, <<>>, NoneLiteral, Intro, Methods,
      <<"I", "N", "T", "R", "O">>, <<" ", "N", "o", "n", "e", " ">>, <<" ", " ">>,
      <<"A", " ", " ", "B">>, <<" ", "a", "\t", "b", "\n", " ", "c", " ">>,
      <<"I", "n", "t", "r", "o", ".">>, <<"A", " ", " ", " ", "B">> }

TextInputs ==
    { Hello, IntroText, Intro, <<>>, <<"|", " ", "A", " ", "|">>, ShortTable,
      LongTable, LongFigure, NoneLiteral, <<"A", " ", "B", " ", "C", "e", "l", "l">>,
      Rep("a", HeaderMaxLen - 1), Rep("a", HeaderMaxLen) }

LineKinds ==
    { <<>>, <<"a", "b", "c">>, <<"|", "a">>, <<"1">>, <<"1", "|">>, <<" ", "2", "x">> }
LinesToText(lines) == Join(lines, <<"\n">>)
TabularInputs == {LinesToText(ls) : ls \in UNION {[1..n -> LineKinds] : n \in 1..MaxLines}}

NewCall(fn, arg) == <<[fn |-> fn, arg |-> arg, done |-> FALSE, result |-> <<>>]>>

InitHelpers ==
    /\ docs = <<>>
    /\ pc = "helper"
    /\ PassIdle
    /\ ReportIdle
    /\ calls = <<>>
    /\ pending = <<>>
    /\ \/ \E p \in PageInputs : helper_call = NewCall("extract_page_number", p)
       \/ \E ds \in PageDocLists : helper_call = NewCall("sorted", ds)
       \/ \E h \in TitleInputs \cup {Rep("a", HeaderMaxLen)} : \E t \in TextInputs :
              helper_call = NewCall("determine_section_type", <<h, t>>)
       \/ \E t \in TabularInputs : helper_call = NewCall("is_purely_tabular", t)
       \/ \E h \in TitleInputs \ {Absent} : helper_call = NewCall("clean_section_title", h)

Calling(fn) ==
    /\ pc = "helper"
    /\ helper_call # <<>>
    /\ helper_call[1].fn = fn
    /\ ~helper_call[1].done
Result(value) ==
    /\ helper_call' = <<[helper_call[1] EXCEPT !.done = TRUE, !.result = value]>>
    /\ UNCHANGED <<docs, pc, sorted_docs, i, sequential_sections, current_paragraph,
                   paragraph_buffer, seen_sections, section_src, buffer_src, trace,
                   calls, pending, formatted_content, current_title, section_index,
                   report_pos, output_file>>

CallExtractPageNumber ==
    Calling("extract_page_number") /\ Result(extract_page_number(helper_call[1].arg))
CallSorted ==
    Calling("sorted") /\ Result(StableSort(helper_call[1].arg))
CallDetermineSectionType ==
    /\ Calling("determine_section_type")
    /\ Result(determine_section_type(
                  [pages |-> Absent, para |-> Absent, section_title |-> helper_call[1].arg[1]],
                  helper_call[1].arg[2]))
CallIsPurelyTabular ==
    Calling("is_purely_tabular") /\ Result(is_purely_tabular(helper_call[1].arg))
CallCleanSectionTitle ==
    Calling("clean_section_title") /\ Result(clean_section_title(helper_call[1].arg))

\* clean_section_title called on the title it has returned
CallCleanSectionTitleAgain ==
    /\ pc = "helper"
    /\ helper_call # <<>>
    /\ helper_call[1].fn = "clean_section_title"
    /\ helper_call[1].done
    /\ helper_call' = <<[fn |-> "clean_section_title_again",
                         arg |-> helper_call[1].result,
                         done |-> TRUE,
                         result |-> clean_section_title(helper_call[1].result)]>>
    /\ UNCHANGED <<docs, pc, sorted_docs, i, sequential_sections, current_paragraph,
                   paragraph_buffer, seen_sections, section_src, buffer_src, trace,
                   calls, pending, formatted_content, current_title, section_index,
                   report_pos, output_file>>

NextHelpers ==
    \/ CallExtractPageNumber
    \/ CallSorted
    \/ CallDetermineSectionType
    \/ CallIsPurelyTabular
    \/ CallCleanSectionTitle
    \/ CallCleanSectionTitleAgain

SpecHelpers == InitHelpers /\ [][NextHelpers]_vars

\* the finished call of fn, if this state holds one
Done(fn) == helper_call # <<>> /\ helper_call[1].fn = fn /\ helper_call[1].done
Arg == helper_call[1].arg
Res == helper_call[1].result

TypeOK ==
    /\ pc \in {"load", "call", "loop", "returned", "raised", "format", "exit", "helper"}
    /\ Len(section_src) = Len(sequential_sections)
    /\ Len(current_paragraph) <= 1

(***************************************************************************)
(* Vocabulary of the properties.  trace[k] is the branch the pass took for *)
(* sorted_docs[k]; section_src[s] lists the fragments whose text is in     *)
(* sequential_sections[s]; buffer_src does the same for the open buffer.   *)
(***************************************************************************)
Returned == pc = "returned"
PageOf(k) == SortKey(sorted_docs[k]).page
ParaOf(k) == SortKey(sorted_docs[k]).para
TextOf(k) == content_of[sorted_docs[k]]
HintOf(k) == sorted_docs[k].metadata.section_title
Hintless(k) == HintOf(k) \in {Absent, Null}
KeyLE(a, b) == ~KeyLess(b, a)
SamePosition(j, k) == PageOf(j) = PageOf(k) /\ ParaOf(j) = ParaOf(k)
SamePrefix(j, k) == Take(TextOf(j), IdPrefixLen) = Take(TextOf(k), IdPrefixLen)
Skipped(k) == trace[k] \in {"empty", "duplicate"}
Buffered(k) == trace[k] \in {"start", "continue"}
\* b is the next fragment after a that the pass did not skip
NextProcessed(a, b) ==
    /\ a < b /\ ~Skipped(a) /\ ~Skipped(b)
    /\ \A m \in (a + 1)..(b - 1) : Skipped(m)
\* the places where fragment k occurs in the emitted Sections
Occurrences(k) ==
    {<<s, j>> \in (1..Len(section_src)) \X (1..MaxDocs + 1) :
        j <= Len(section_src[s]) /\ section_src[s][j] = k}
SectionsOf(k) == {s \in 1..Len(section_src) : \E j \in 1..Len(section_src[s]) : section_src[s][j] = k}
SrcTexts(s) == [j \in 1..Len(section_src[s]) |-> TextOf(section_src[s][j])]
\* a and b are neighbours in one Section
AdjacentInSection(a, b) ==
    \E s \in 1..Len(section_src) : \E j \in 1..(Len(section_src[s]) - 1) :
        section_src[s][j] = a /\ section_src[s][j + 1] = b

\* C1: after the pass every fragment with non-empty text is in exactly one
\* of three cases: its text is in exactly one emitted Section; it was
\* skipped as a duplicate of an earlier fragment with the same page,
\* paragraph_index and first 50 characters; it is a table/figure that was
\* dropped for being short or purely tabular.
C1_InOneSection(k) ==
    /\ Cardinality(Occurrences(k)) = 1
    /\ \A s \in SectionsOf(k) : sequential_sections[s].content = Join(SrcTexts(s), <<" ">>)
C1_DuplicateOfEarlier(k) ==
    /\ trace[k] = "duplicate"
    /\ \E j \in 1..(k - 1) : TextOf(j) # <<>> /\ SamePosition(j, k) /\ SamePrefix(j, k)
C1_DroppedNoise(k) ==
    /\ trace[k] = "drop"
    /\ section_type_of[sorted_docs[k]] \in {"table", "figure"}
    /\ Len(TextOf(k)) <= MinContentLen \/ is_purely_tabular(TextOf(k))
C1_Completeness ==
    Returned =>
        \A k \in 1..Len(sorted_docs) :
            TextOf(k) # <<>> =>
                /\ C1_InOneSection(k) \/ C1_DuplicateOfEarlier(k) \/ C1_DroppedNoise(k)
                /\ ~(C1_InOneSection(k) /\ trace[k] \in {"duplicate", "drop"})

\* C2: Sections are listed in the order of the least (page, paragraph_index)
\* of their fragments, and inside a Section the fragment texts are in
\* ascending (page, paragraph_index) order.
MinKeyOf(s) ==
    CHOOSE key \in {SortKey(sorted_docs[section_src[s][j]]) : j \in 1..Len(section_src[s])} :
        \A j \in 1..Len(section_src[s]) : KeyLE(key, SortKey(sorted_docs[section_src[s][j]]))
C2_OrderPreserved ==
    Returned =>
        /\ \A s1, s2 \in 1..Len(section_src) :
               s1 < s2 => KeyLE(MinKeyOf(s1), MinKeyOf(s2))
        /\ \A s \in 1..Len(section_src) :
               /\ sequential_sections[s].content = Join(SrcTexts(s), <<" ">>)
               /\ \A j \in 1..(Len(section_src[s]) - 1) :
                      /\ section_src[s][j] < section_src[s][j + 1]
                      /\ KeyLE(SortKey(sorted_docs[section_src[s][j]]),
                               SortKey(sorted_docs[section_src[s][j + 1]]))
C2_Witness ==
    /\ Returned
    /\ Len(sequential_sections) >= 2
    /\ \E s \in 1..Len(section_src) : Len(section_src[s]) >= 2
    /\ \E k \in 1..(Len(docs) - 1) : KeyLess(SortKey(docs[k + 1]), SortKey(docs[k]))

\* C3: every emitted Section whose fragments carry no section-title hint
\* (absent or null) is titled "Unknown Section".
C3_TitleDefault ==
    \A s \in 1..Len(sequential_sections) :
        (\A j \in 1..Len(section_src[s]) : Hintless(section_src[s][j]))
            => sequential_sections[s].title = UnknownSection

\* C4: the page of every emitted Section is the page of the first fragment
\* put into it.
C4_PageOfFirstFragment ==
    \A s \in 1..Len(sequential_sections) :
        sequential_sections[s].page = PageOf(section_src[s][1])

\* C5: the title of an emitted paragraph Section is the cleaned title hint
\* of the fragment that opened the buffer, whatever hints the continuation
\* fragments carry.
C5_TitleOfOpener ==
    \A s \in 1..Len(sequential_sections) :
        sequential_sections[s].type = "paragraph" =>
            sequential_sections[s].title =
                create_paragraph_section(
                    [metadata |-> sorted_docs[section_src[s][1]].metadata,
                     content_parts |-> <<>>]).title

\* C6: the pass never raises for a paragraph_index that is not an integer.
C6_NeverRaises == pc # "raised"

\* C7: of two non-empty fragments that agree on page, paragraph_index (as
\* integers) and the first 50 characters only the first processed one can
\* contribute to the output; fragments that differ in one of the three are
\* never dropped as duplicates of each other.
C7_Deduplication ==
    Returned =>
        /\ \A j, k \in 1..Len(sorted_docs) :
               (j < k /\ TextOf(j) # <<>> /\ SamePosition(j, k) /\ SamePrefix(j, k))
                   => SectionsOf(k) = {}
        /\ \A k \in 1..Len(sorted_docs) :
               trace[k] = "duplicate" =>
                   \E j \in 1..(k - 1) :
                       TextOf(j) # <<>> /\ SamePosition(j, k) /\ SamePrefix(j, k)

\* C8: two paragraph fragments processed one directly after the other, on
\* the same page with paragraph indices n and n+1, are emitted in one
\* single Section, the first text, one space, the second text.
C8_Premise(a, b) ==
    /\ NextProcessed(a, b)
    /\ section_type_of[sorted_docs[a]] = "paragraph"
    /\ section_type_of[sorted_docs[b]] = "paragraph"
    /\ PageOf(a) = PageOf(b) /\ ParaOf(b) = ParaOf(a) + 1
MergedPair(a, b) ==
    /\ AdjacentInSection(a, b)
    /\ Cardinality(SectionsOf(a)) = 1 /\ SectionsOf(b) = SectionsOf(a)
    /\ \A s \in SectionsOf(a) :
           /\ sequential_sections[s].content = Join(SrcTexts(s), <<" ">>)
           /\ section_src[s] = <<a, b>> =>
                  sequential_sections[s].content = TextOf(a) \o <<" ">> \o TextOf(b)
C8_SamePageContinuation ==
    Returned =>
        \A a, b \in 1..Len(sorted_docs) : C8_Premise(a, b) => MergedPair(a, b)
C8_Witness ==
    /\ Returned
    /\ \E a, b \in 1..Len(sorted_docs) :
           /\ C8_Premise(a, b)
           /\ TextOf(a) = Hello /\ TextOf(b) = World
           /\ \E s \in 1..Len(sequential_sections) :
                  /\ section_src[s] = <<a, b>>
                  /\ sequential_sections[s].content = Hello \o <<" ">> \o World

\* C9: a paragraph fragment with paragraph_index 1 on the page after the
\* page of the last fragment of the open buffer is always appended to
\* that buffer, whatever the previous paragraph_index and the title hints.
C9_Premise(a, b) ==
    /\ NextProcessed(a, b)
    /\ section_type_of[sorted_docs[a]] = "paragraph"
    /\ section_type_of[sorted_docs[b]] = "paragraph"
    /\ PageOf(b) = PageOf(a) + 1 /\ ParaOf(b) = 1
C9_CrossPageContinuation ==
    Returned =>
        \A a, b \in 1..Len(sorted_docs) :
            C9_Premise(a, b) => trace[b] = "continue" /\ MergedPair(a, b)
C9_Witness ==
    /\ Returned
    /\ \E a, b \in 1..Len(sorted_docs) :
           /\ C9_Premise(a, b)
           /\ ParaOf(a) # 1
           /\ HintOf(a) # HintOf(b)
           /\ \E s \in 1..Len(sequential_sections) :
                  /\ section_src[s] = <<a, b>>
                  /\ sequential_sections[s].content = TextOf(a) \o <<" ">> \o TextOf(b)

\* C10: a non-duplicate fragment that classifies as header is always
\* emitted as a Section of its own, titled with the cleaned hint; it is
\* never put into a paragraph buffer and no Section holds fragments from
\* both sides of it.
IsHeaderFragment(k) ==
    /\ HintOf(k) \notin {Absent, Null, <<>>, NoneLiteral}
    /\ TextOf(k) # <<>>
    /\ Len(TextOf(k)) < HeaderMaxLen
    /\ Contains(Lower(HintOf(k)), Lower(TextOf(k)))
C10_HeaderIsolation ==
    Returned =>
        \A k \in 1..Len(sorted_docs) :
            (IsHeaderFragment(k) /\ trace[k] # "duplicate") =>
                /\ trace[k] = "emit"
                /\ \E s \in 1..Len(sequential_sections) :
                       /\ SectionsOf(k) = {s}
                       /\ section_src[s] = <<k>>
                       /\ sequential_sections[s].type = "header"
                       /\ sequential_sections[s].title = clean_section_title(HintOf(k))
                       /\ sequential_sections[s].content = TextOf(k)
                /\ \A s \in 1..Len(sequential_sections) :
                       ~\E j1, j2 \in 1..Len(section_src[s]) :
                           section_src[s][j1] < k /\ k < section_src[s][j2]
C10_Witness ==
    /\ Returned
    /\ \E a, k, b \in 1..Len(sorted_docs) :
           /\ a < k /\ k < b
           /\ IsHeaderFragment(k) /\ trace[k] = "emit"
           /\ Buffered(a) /\ Buffered(b)
           /\ PageOf(a) = PageOf(b) /\ ParaOf(b) = ParaOf(a) + 1
           /\ SectionsOf(a) # SectionsOf(b)

\* C11: a non-duplicate table or figure fragment produces a Section of its
\* own exactly when its stripped text is longer than 50 characters and is
\* not purely tabular; no emitted table or figure Section has content of
\* 50 characters or fewer.
IsTableOrFigure(k) == section_type_of[sorted_docs[k]] \in {"table", "figure"}
Substantial(k) == Len(TextOf(k)) > MinContentLen /\ ~is_purely_tabular(TextOf(k))
OwnSection(k) ==
    \E s \in 1..Len(sequential_sections) :
        /\ SectionsOf(k) = {s}
        /\ section_src[s] = <<k>>
        /\ sequential_sections[s].content = TextOf(k)
        /\ sequential_sections[s].type = section_type_of[sorted_docs[k]]
C11_TableFigureFilter ==
    Returned =>
        /\ \A k \in 1..Len(sorted_docs) :
               (IsTableOrFigure(k) /\ ~Skipped(k)) =>
                   /\ Substantial(k) => OwnSection(k)
                   /\ ~Substantial(k) => SectionsOf(k) = {}
        /\ \A s \in 1..Len(sequential_sections) :
               sequential_sections[s].type \in {"table", "figure"} =>
                   Len(sequential_sections[s].content) > MinContentLen
C11_Witness ==
    /\ Returned
    /\ \E k1, k2, k3 \in 1..Len(sorted_docs) :
           /\ IsTableOrFigure(k1) /\ Substantial(k1) /\ OwnSection(k1)
           /\ IsTableOrFigure(k2) /\ TextOf(k2) = LongTabular /\ trace[k2] = "drop"
           /\ IsTableOrFigure(k3) /\ TextOf(k3) = ShortTable /\ trace[k3] = "drop"

\* C12: a fragment whose text is empty or only whitespace is skipped with
\* no effect: the step emits no Section, adds no key to the deduplication
\* set and leaves the open paragraph buffer as it is; the set holds the
\* identifiers of the non-empty fragments processed so far and nothing else.
AtEmptyFragment ==
    /\ pc = "loop" /\ i <= Len(sorted_docs)
    /\ Strip(sorted_docs[i].page_content) = <<>>
C12_EmptySkipped ==
    /\ [][AtEmptyFragment =>
             /\ i' = i + 1
             /\ UNCHANGED <<sequential_sections, seen_sections, current_paragraph,
                            paragraph_buffer>>]_vars
    /\ [](pc \in {"loop", "returned"} =>
             seen_sections =
                 {section_id_of[sorted_docs[k]] :
                     k \in {m \in 1..Len(trace) : TextOf(m) # <<>>}})
C12_Witness ==
    /\ Returned
    /\ \E a, e, b \in 1..Len(sorted_docs) :
           /\ a < e /\ e < b
           /\ trace[e] = "empty" /\ SamePosition(a, e)
           /\ trace[a] = "start" /\ trace[b] = "continue"
           /\ AdjacentInSection(a, b)

\* C13: the pass keeps no state between calls: a call returns the same
\* Section list as every earlier call on the same input, whatever was
\* called in between.
C13_Deterministic ==
    Returned =>
        \A c \in 1..Len(calls) :
            calls[c].docs = docs => calls[c].result = sequential_sections
C13_Witness ==
    /\ Returned
    /\ Len(calls) = 2
    /\ calls[1].docs = docs /\ calls[2].docs # docs
    /\ calls[2].result # <<>>
    /\ sequential_sections # <<>>
    /\ \E k \in 1..Len(trace) : trace[k] = "duplicate"

\* C14: the pass does not mutate its input: no step changes the caller's
\* fragment list, its order, or the metadata and text of a fragment.
C14_InputUnchanged == [][docs' = docs]_vars
C14_Witness ==
    /\ Returned
    /\ sorted_docs # docs
    /\ Len(docs) = MaxDocs
    /\ \E s \in 1..Len(section_src) : Len(section_src[s]) >= 2

\* C15: extract_page_number never fails.  For a 'pages' string it returns
\* the value of the first maximal run of digits, and 0 when the string has
\* no digit; for any other malformed value it returns 0.  The sort
\* therefore places a fragment with a malformed page as page 0, before the
\* fragments of every numbered page, and loses no fragment.
RECURSIVE NumberAt(_, _, _)
NumberAt(s, a, b) == IF b < a THEN 0 ELSE 10 * NumberAt(s, a, b - 1) + DigitVal(s[b])
IsPagesString(p) == ~IsTuple(p) /\ p # Null /\ p # Absent
HasDigit(p) == \E k \in 1..Len(p) : p[k] \in Digits
MalformedPages(p) ==
    \/ p = Null
    \/ IsPagesString(p) /\ ~HasDigit(p)
    \/ IsTuple(p) /\ (Len(p) = 1 \/ ~HasDigit(p[2]))
C15_PageNumberTotal ==
    /\ Done("extract_page_number") =>
           /\ Res \in Nat
           /\ MalformedPages(Arg) => Res = 0
           /\ IsPagesString(Arg) /\ HasDigit(Arg) =>
                  \E a, b \in 1..Len(Arg) :
                      /\ a <= b
                      /\ \A k \in 1..(a - 1) : Arg[k] \notin Digits
                      /\ \A k \in a..b : Arg[k] \in Digits
                      /\ b = Len(Arg) \/ Arg[b + 1] \notin Digits
                      /\ Res = NumberAt(Arg, a, b)
    /\ Done("sorted") =>
           /\ Len(Res) = Len(Arg)
           /\ \A d \in PageDocs :
                  Cardinality({k \in 1..Len(Res) : Res[k] = d})
                      = Cardinality({k \in 1..Len(Arg) : Arg[k] = d})
           /\ \A j, k \in 1..Len(Res) :
                  /\ MalformedPages(Res[k].metadata.pages)
                  /\ ~MalformedPages(Res[j].metadata.pages)
                  /\ Res[j].metadata.pages # Absent
                  => k < j
C15_Witness ==
    /\ Done("sorted")
    /\ extract_page_number(Arg[1].metadata.pages) = 2
    /\ IsTuple(Arg[2].metadata.pages) /\ MalformedPages(Arg[2].metadata.pages)
    /\ Res = <<Arg[2], Arg[1]>>

\* C16: in the report, a header is written exactly for the first Section
\* and for every Section whose title differs from the title of the Section
\* before it: each maximal run of Sections with one title has one header,
\* the headers are numbered 1, 2, 3... and show the page of the run's first
\* Section, each Section's content is written once, in Section order, after
\* its run's header, and the reported total is the number of runs.
Formatted == IF pc = "format" THEN report_pos - 1 ELSE Len(sequential_sections)
RunStarts ==
    {s \in 1..Formatted :
        s = 1 \/ sequential_sections[s].title # sequential_sections[s - 1].title}
RunsUpTo(s) == Cardinality({h \in RunStarts : h <= s})
\* where the content of Section s stands in the report
ContentAt(s) == s + RunsUpTo(s)
C16_ReportHeaders ==
    pc \in {"format", "exit"} /\ (pc = "exit" => output_file # <<>>) =>
        LET report == IF pc = "exit" THEN output_file[1] ELSE formatted_content
        IN  /\ Len(report) = Formatted + Cardinality(RunStarts)
            /\ section_index = Cardinality(RunStarts)
            /\ \A s \in 1..Formatted :
                   /\ report[ContentAt(s)] = Content(sequential_sections[s].content)
                   /\ s \in RunStarts =>
                          report[ContentAt(s) - 1] =
                              Header(RunsUpTo(s), sequential_sections[s].title,
                                     sequential_sections[s].page)
            /\ \A b \in 1..Len(report) :
                   report[b].kind = "header" =>
                       \E s \in RunStarts : b = ContentAt(s) - 1
C16_Witness ==
    /\ pc = "exit"
    /\ output_file # <<>>
    /\ Len(sequential_sections) = 3
    /\ sequential_sections[1].title = sequential_sections[2].title
    /\ sequential_sections[2].title # sequential_sections[3].title
    /\ sequential_sections[1].page # sequential_sections[2].page
    /\ Len(output_file[1]) = 5
    /\ section_index = 2

\* C17: for a fragment whose section-title hint is a non-empty string other
\* than the literal "None", determine_section_type returns header exactly
\* when the text is shorter than 200 characters and is, ignoring case, a
\* substring of the hint, and paragraph otherwise; it never returns table
\* or figure.  The table and figure heuristics decide when the hint is
\* absent, null, empty or the literal "None", and then header is never
\* returned.
HintArg == Arg[1]
TextArg == Strip(Arg[2])
SubstringIgnoringCase(text, hint) ==
    \E k \in 0..(Len(hint) - Len(text)) :
        \A j \in 1..Len(text) : LowerChar(text[j]) = LowerChar(hint[k + j])
HintedType ==
    IF Len(TextArg) < 200 /\ SubstringIgnoringCase(TextArg, HintArg)
    THEN "header" ELSE "paragraph"
NoUsableHint == HintArg \in {Absent, Null, <<>>, NoneLiteral}
C17_HintedType ==
    Done("determine_section_type") =>
        /\ ~NoUsableHint => Res = HintedType
        /\ NoUsableHint =>
               /\ Res \in {"table", "figure", "paragraph"}
               /\ Res = "table" <=> is_table_content(Arg[2])
               /\ Res = "figure" <=> ~is_table_content(Arg[2]) /\ is_figure_content(Arg[2])
C17_Witness ==
    /\ Done("determine_section_type")
    /\ HintArg = <<"I", "N", "T", "R", "O">>
    /\ TextArg = Intro
    /\ Res = "header"
\* C17 as claimed: every hint that is present and not null, whatever the
\* string, gives header or paragraph by the substring test.
C17_AnyStringHint ==
    /\ Done("determine_section_type")
    /\ HintArg \notin {Absent, Null}
    /\ TextArg # <<>>
    => Res = HintedType

\* C18: is_purely_tabular(text) is true exactly when, among the non-blank
\* lines of text, the lines that contain a pipe or start with a digit, each
\* counted once, are more than 70% of the non-blank lines.
LinesOf(text) == SplitLines(text)
NonBlankLines(text) == {k \in 1..Len(LinesOf(text)) : Strip(LinesOf(text)[k]) # <<>>}
StartsWithDigit(line) ==
    \E k \in 1..Len(line) :
        /\ line[k] \in Digits
        /\ \A j \in 1..(k - 1) : line[j] \in Whitespace
TabularLines(text) ==
    {k \in 1..Len(LinesOf(text)) :
        "|" \in {LinesOf(text)[k][j] : j \in 1..Len(LinesOf(text)[k])}
            \/ StartsWithDigit(LinesOf(text)[k])}
C18_TabularRatio ==
    Done("is_purely_tabular") /\ NonBlankLines(Arg) # {} =>
        (Res <=> 10 * Cardinality(TabularLines(Arg)) > 7 * Cardinality(NonBlankLines(Arg)))

\* C19: clean_section_title returns "Unknown Section" for a null or empty
\* title and for the literal "None"; for every other title the result keeps
\* the title's non-whitespace characters unchanged and in order, has one
\* space wherever the title has a run of whitespace between two of them,
\* and has no other character: no leading, trailing or doubled whitespace.
Visible(s) == {k \in 1..Len(s) : s[k] \notin Whitespace}
\* the place in the cleaned title of the visible character s[k]
CleanPos(s, k) ==
    Cardinality({j \in Visible(s) : j <= k})
        + Cardinality({j \in 1..(k - 1) :
                          /\ s[j] \in Whitespace
                          /\ s[j + 1] \notin Whitespace
                          /\ \E v \in Visible(s) : v < j})
C19_CleanTitle ==
    Done("clean_section_title") =>
        IF Arg \in {Null, <<>>, NoneLiteral}
        THEN Res = <<"U", "n", "k", "n", "o", "w", "n", " ", "S", "e", "c", "t", "i", "o", "n">>
        ELSE /\ \A k \in Visible(Arg) : Res[CleanPos(Arg, k)] = Arg[k]
             /\ Len(Res) = IF Visible(Arg) = {} THEN 0 ELSE CleanPos(Arg, SetMax(Visible(Arg)))
             /\ \A p \in 1..Len(Res) :
                    \/ \E k \in Visible(Arg) : p = CleanPos(Arg, k)
                    \/ Res[p] = " "
C19_Witness ==
    /\ Done("clean_section_title")
    /\ Arg = <<" ", "a", "\t", "b", "\n", " ", "c", " ">>
    /\ Res = <<"a", " ", "b", " ", "c">>

\* C20: the step that processes a non-empty, non-duplicate fragment
\* classified header, table or figure first emits the open paragraph, if
\* there is one, and leaves no paragraph open, also when the fragment
\* itself is dropped by the inclusion filter; so the next paragraph
\* fragment that is processed starts a new Section and never continues the
\* paragraph before the header, table or figure.
AtNonParagraph ==
    /\ pc = "loop" /\ i <= Len(sorted_docs)
    /\ TextOf(i) # <<>>
    /\ section_id_of[sorted_docs[i]] \notin seen_sections
    /\ section_type_of[sorted_docs[i]] \in {"header", "table", "figure"}
C20_NonParagraphCloses ==
    /\ [][AtNonParagraph =>
             /\ current_paragraph' = <<>>
             /\ paragraph_buffer' = <<>>
             /\ current_paragraph # <<>> =>
                    /\ Len(sequential_sections') > Len(sequential_sections)
                    /\ SubSeq(sequential_sections', 1, Len(sequential_sections))
                           = sequential_sections
                    /\ sequential_sections'[Len(sequential_sections) + 1].type = "paragraph"
                    /\ sequential_sections'[Len(sequential_sections) + 1].content
                           = Join(paragraph_buffer, <<" ">>)
                    /\ section_src'[Len(sequential_sections) + 1] = buffer_src
             /\ current_paragraph = <<>> =>
                    \/ sequential_sections' = sequential_sections
                    \/ /\ Len(sequential_sections') = Len(sequential_sections) + 1
                       /\ sequential_sections'[Len(sequential_sections')].type # "paragraph"]_vars
    /\ [](pc \in {"loop", "returned"} =>
             \A k, b \in 1..Len(trace) :
                 /\ trace[k] \in {"emit", "drop"}
                 /\ NextProcessed(k, b)
                 /\ Buffered(b)
                 => trace[b] = "start")
C20_Witness ==
    /\ Returned
    /\ \E a, k, b \in 1..Len(sorted_docs) :
           /\ NextProcessed(a, k) /\ NextProcessed(k, b)
           /\ trace[a] = "start" /\ trace[k] = "drop" /\ trace[b] = "start"
           /\ PageOf(b) = PageOf(a) /\ ParaOf(b) = ParaOf(a) + 1
           /\ Hintless(a) /\ Hintless(b)
           /\ Len(sequential_sections) = 2

\* C21: one paragraph buffer at most is open at a time, and every buffer
\* that is opened is eventually emitted as exactly one Section: while it is
\* open it is in no Section, it is emitted by the step that processes the
\* next fragment that does not continue it or by the end of the pass, it is
\* never emitted twice, and when the pass has returned every opened buffer
\* is in exactly one Section with all the texts appended to it.
Opened(k) == k <= Len(trace) /\ trace[k] = "start"
IsOpen(k) == pc = "loop" /\ current_paragraph # <<>> /\ buffer_src # <<>> /\ buffer_src[1] = k
SectionsOpenedBy(k) ==
    {s \in 1..Len(section_src) : section_src[s] # <<>> /\ section_src[s][1] = k}
EmittedOnce(k) ==
    /\ Cardinality(SectionsOpenedBy(k)) = 1
    /\ \A s \in SectionsOpenedBy(k) :
           /\ sequential_sections[s].type = "paragraph"
           /\ sequential_sections[s].content = Join(SrcTexts(s), <<" ">>)
C21_BufferEmittedOnce ==
    /\ [](pc \in {"loop", "returned"} =>
             /\ Len(current_paragraph) <= 1
             /\ (pc = "loop" /\ current_paragraph # <<>>) =>
                    /\ buffer_src # <<>> /\ Opened(buffer_src[1])
                    /\ paragraph_buffer = [j \in 1..Len(buffer_src) |-> TextOf(buffer_src[j])]
             /\ \A k \in 1..Len(trace) :
                    Opened(k) =>
                        IF IsOpen(k) THEN SectionsOpenedBy(k) = {} ELSE EmittedOnce(k))
    /\ [][\A k \in 1..Len(trace) :
              IsOpen(k) =>
                  (SectionsOpenedBy(k)' # {}
                      <=> \/ pc' = "returned"
                          \/ /\ Len(trace') > Len(trace)
                             /\ trace'[Len(trace')] \in {"start", "emit", "drop"})]_vars
    /\ (pc = "loop" /\ current_paragraph # <<>>)
           ~> (pc = "returned" /\ \A k \in 1..Len(trace) : Opened(k) => EmittedOnce(k))
C21_Witness ==
    /\ Returned
    /\ trace = <<"start", "emit", "start">>
    /\ EmittedOnce(1) /\ EmittedOnce(3)
    /\ Len(sequential_sections) = 3

\* C22: two fragments are in the same Section only if both are classified
\* paragraph and every fragment processed between them, skipped empty and
\* duplicate fragments left aside, is a paragraph that passes the
\* continuation test against the fragment processed just before it.
\* Paragraph runs separated by a header, table or figure, or by a paragraph
\* that fails the test, are separate Sections: the pass emits one Section
\* per started paragraph and per kept header, table or figure, and merges
\* nothing afterwards.
ClassifiedParagraph(k) == section_type_of[sorted_docs[k]] = "paragraph"
PassesContinuationTest(a, b) ==
    \/ PageOf(b) = PageOf(a) /\ ParaOf(b) = ParaOf(a) + 1
    \/ PageOf(b) = PageOf(a) + 1 /\ ParaOf(b) = 1
C22_OnlyContinuationsMerge ==
    Returned =>
        /\ \A s \in 1..Len(section_src) : \A x, y \in 1..Len(section_src[s]) :
               x < y =>
                   LET j == section_src[s][x]
                       k == section_src[s][y]
                   IN  /\ j < k
                       /\ ClassifiedParagraph(j) /\ ClassifiedParagraph(k)
                       /\ \A m \in (j + 1)..k :
                              \/ Skipped(m)
                              \/ /\ ClassifiedParagraph(m)
                                 /\ \E a \in j..(m - 1) :
                                        NextProcessed(a, m) /\ PassesContinuationTest(a, m)
        /\ Len(sequential_sections)
               = Cardinality({k \in 1..Len(trace) : trace[k] \in {"start", "emit"}})
        /\ \A j, k \in 1..Len(trace) :
               (NextProcessed(j, k) /\ ~(ClassifiedParagraph(k) /\ PassesContinuationTest(j, k)))
                   => SectionsOf(j) \cap SectionsOf(k) = {}
C22_Witness ==
    /\ Returned
    /\ Len(sequential_sections) = 2
    /\ sequential_sections[1].title = sequential_sections[2].title
    /\ sequential_sections[1].type = "paragraph" /\ sequential_sections[2].type = "paragraph"
    /\ Len(section_src[1]) = 1 /\ Len(section_src[2]) = 2
    /\ ~PassesContinuationTest(section_src[1][1], section_src[2][1])

\* C23: the fragments are processed in ascending (page, paragraph_index)
\* order and fragments with the same page and paragraph_index keep the
\* order of the input list; so of two fragments with the same position
\* and different texts that are both emitted, the one that is first in the
\* input is emitted first.
RECURSIVE WithKey(_, _)
WithKey(ds, key) ==
    IF ds = <<>> THEN <<>>
    ELSE (IF SortKey(Head(ds)) = key THEN <<Head(ds)>> ELSE <<>>) \o WithKey(Tail(ds), key)
\* where the text of sorted fragment k stands in the output
PlaceOf(k) == CHOOSE o \in Occurrences(k) : TRUE
C23_StableOrder ==
    Returned =>
        /\ Len(sorted_docs) = Len(docs)
        /\ \A k \in 1..(Len(sorted_docs) - 1) :
               KeyLE(SortKey(sorted_docs[k]), SortKey(sorted_docs[k + 1]))
        /\ \A k \in 1..Len(docs) :
               WithKey(sorted_docs, SortKey(docs[k])) = WithKey(docs, SortKey(docs[k]))
        /\ \A j, k \in 1..Len(trace) :
               (j < k /\ Occurrences(j) # {} /\ Occurrences(k) # {}) =>
                   \/ PlaceOf(j)[1] < PlaceOf(k)[1]
                   \/ PlaceOf(j)[1] = PlaceOf(k)[1] /\ PlaceOf(j)[2] < PlaceOf(k)[2]
C23_Witness ==
    /\ Returned
    /\ docs # sorted_docs
    /\ \E a, b \in 1..Len(docs) : \E j, k \in 1..Len(sorted_docs) :
           /\ a < b /\ j < k
           /\ SortKey(docs[a]) = SortKey(docs[b])
           /\ docs[a].page_content # docs[b].page_content
           /\ sorted_docs[j] = docs[a] /\ sorted_docs[k] = docs[b]
           /\ Occurrences(j) # {} /\ Occurrences(k) # {}
           /\ PlaceOf(j)[1] < PlaceOf(k)[1]

\* C24: the continuation test compares a fragment with the fragment last
\* appended to the open buffer, not with the one that opened it: a run of
\* two or more paragraph fragments on one page with consecutive paragraph
\* indices, processed with nothing but skipped fragments between them, is
\* emitted as one Section that holds all their texts in order, joined by
\* single spaces.
Processed(a, b) == {m \in a..b : ~Skipped(m)}
IsRun(a, b) ==
    /\ a < b /\ ~Skipped(a) /\ ~Skipped(b)
    /\ \A m \in Processed(a, b) :
           /\ ClassifiedParagraph(m)
           /\ PageOf(m) = PageOf(a)
           /\ ParaOf(m) = ParaOf(a) + Cardinality(Processed(a, m)) - 1
C24_RunIsOneSection ==
    Returned =>
        \A a, b \in 1..Len(sorted_docs) :
            IsRun(a, b) =>
                /\ Cardinality(SectionsOf(a)) = 1
                /\ \A m \in Processed(a, b) : SectionsOf(m) = SectionsOf(a)
                /\ \A s \in SectionsOf(a) :
                       /\ \A m \in Processed(a, b) : Cardinality(Occurrences(m)) = 1
                       /\ \A m, n \in Processed(a, b) :
                              NextProcessed(m, n) => AdjacentInSection(m, n)
                       /\ sequential_sections[s].content = Join(SrcTexts(s), <<" ">>)
                       /\ sequential_sections[s].type = "paragraph"
C24_Witness ==
    /\ Returned
    /\ Len(sorted_docs) = 3
    /\ IsRun(1, 3)
    /\ trace = <<"start", "continue", "continue">>
    /\ HintOf(3) # HintOf(1)
    /\ Len(sequential_sections) = 1
    /\ sequential_sections[1].content = Hello \o <<" ">> \o World \o <<" ">> \o Hello

\* C25: the step that skips a duplicate fragment changes nothing in the
\* pass state but the loop position: the emitted Sections, the open
\* paragraph buffer with its content and metadata, and the deduplication
\* set stay as they are, whatever the duplicate classifies as.  So a
\* paragraph, then duplicates only, then a paragraph that passes the
\* continuation test against the first are merged into one Section, also
\* when a duplicate classifies as header.
AtDuplicate ==
    /\ pc = "loop" /\ i <= Len(sorted_docs)
    /\ TextOf(i) # <<>>
    /\ section_id_of[sorted_docs[i]] \in seen_sections
C25_DuplicateNoEffect ==
    /\ [][AtDuplicate =>
             /\ i' = i + 1
             /\ pc' = pc
             /\ UNCHANGED <<sequential_sections, current_paragraph, paragraph_buffer,
                            seen_sections, sorted_docs>>]_vars
    /\ [](Returned =>
             \A a, b \in 1..Len(sorted_docs) :
                 /\ NextProcessed(a, b)
                 /\ ClassifiedParagraph(a) /\ ClassifiedParagraph(b)
                 /\ PassesContinuationTest(a, b)
                 => AdjacentInSection(a, b))
C25_Witness ==
    /\ Returned
    /\ \E a, d, b \in 1..Len(sorted_docs) :
           /\ a < d /\ d < b
           /\ NextProcessed(a, b)
           /\ trace[d] = "duplicate"
           /\ section_type_of[sorted_docs[d]] = "header"
           /\ Buffered(a) /\ trace[b] = "continue"
           /\ AdjacentInSection(a, b)

UniquePositions(ds) ==
    \A x, y \in 1..Len(ds) :
        x # y =>
            \/ extract_page_number(Get(ds[x].metadata, "pages", <<"0">>))
                   # extract_page_number(Get(ds[y].metadata, "pages", <<"0">>))
            \/ ParseInt(Get(ds[x].metadata, "para", <<"0">>)).val
                   # ParseInt(Get(ds[y].metadata, "para", <<"0">>)).val
IsPermutation(ds, es) ==
    /\ Len(ds) = Len(es)
    /\ \A d \in {ds[k] : k \in 1..Len(ds)} \cup {es[k] : k \in 1..Len(es)} :
           Cardinality({k \in 1..Len(ds) : ds[k] = d})
               = Cardinality({k \in 1..Len(es) : es[k] = d})
C27_OrderIndependent ==
    Returned =>
        \A c \in 1..Len(calls) :
            (UniquePositions(docs) /\ IsPermutation(calls[c].docs, docs))
                => calls[c].result = sequential_sections
C27_Witness ==
    /\ Returned
    /\ Len(calls) = 1
    /\ UniquePositions(docs)
    /\ Len(docs) = MaxDocs
    /\ calls[1].docs # docs
    /\ calls[1].docs # sorted_docs /\ docs # sorted_docs
    /\ IsPermutation(calls[1].docs, docs)
    /\ Len(sequential_sections) >= 2
    /\ calls[1].result = sequential_sections

\* C28: every emitted Section has non-empty content, and its title is
\* non-empty unless one of its fragments has a title hint that is a
\* non-empty string of whitespace only; a hint that is absent, null or the
\* empty string gives a non-empty title.
BlankHint(k) ==
    /\ HintOf(k) \notin {Absent, Null, <<>>}
    /\ \A c \in 1..Len(HintOf(k)) : HintOf(k)[c] \in Whitespace
C28_NonEmptyContent ==
    \A s \in 1..Len(sequential_sections) :
        /\ sequential_sections[s].content # <<>>
        /\ sequential_sections[s].content_length > 0
        /\ sequential_sections[s].title = <<>> =>
               \E j \in 1..Len(section_src[s]) : BlankHint(section_src[s][j])
C28_Witness ==
    /\ Returned
    /\ Len(sequential_sections) = 2
    /\ sequential_sections[1].title = <<>>
    /\ sequential_sections[2].title # <<>>
    /\ HintOf(section_src[2][1]) = <<>>
\* C28 as claimed: every emitted Section has a non-empty title and
\* non-empty content.
C28_NonEmptyTitle ==
    \A s \in 1..Len(sequential_sections) :
        /\ sequential_sections[s].title # <<>>
        /\ sequential_sections[s].content # <<>>

\* C29: clean_section_title applied to a title it has returned gives that
\* title again, unless the returned title is empty or is "None": a raw
\* title of whitespace only is cleaned to "" and a raw "None" with
\* whitespace around it to "None", and both are then cleaned to "Unknown
\* Section".
CleanedTwice == Done("clean_section_title_again")
C29_IdempotentOnTitles ==
    CleanedTwice =>
        IF Arg \in {<<>>, NoneLiteral}
        THEN Res = <<"U", "n", "k", "n", "o", "w", "n", " ", "S", "e", "c", "t", "i", "o", "n">>
        ELSE Res = Arg
C29_Witness ==
    /\ CleanedTwice
    /\ Arg = <<"a", " ", "b", " ", "c">>
    /\ Res = <<"a", " ", "b", " ", "c">>
\* C29 as claimed: cleaning a cleaned title changes nothing, whatever the
\* raw title was.
C29_Idempotent == CleanedTwice => Res = Arg

====
